---- MODULE Spec2Model ----
(***************************************************************************)
(* prettyconf: the loader chain (loaders.py), the resolver                 *)
(* (configuration.py) and the sources (sources.py).                        *)
(*                                                                         *)
(* Values are strings.  Every backing store gives its own value to a name  *)
(* so that a result tells which loader produced it: the command line "0",  *)
(* the file ".env" "1", the process environment "2", the file "b.env" "3". *)
(***************************************************************************)
EXTENDS Integers, Sequences, FiniteSets, TLC

VARIABLES
    loadersArg,     \* the argument given to Loaders(loaders=...)
    loaders,        \* Loaders.loaders
    namespace,      \* what parser.parse_known_args yields for the process arguments
    environ,        \* os.environ
    fs,             \* the files: name -> content
    cl_configs,     \* CommandLine.configs
    env_configs,    \* Environment.configs
    ef_configs,     \* EnvFile.configs
    looked,         \* the loaders whose _get_config has run at least once
    last,           \* the last call made and how it ended
    gs_names,       \* FileSource._filenames
    gs_pc,          \* where the generator of get_streams() stands
    gs_pos,         \* the index in filenames the generator has reached
    gs_open,        \* the indices of the files that are open
    gs_out,         \* the indices of the files whose stream was yielded
    rs_start,       \* RecursiveFileSearchSource._start_path
    rs_root,        \* RecursiveFileSearchSource.root_path
    rs_last         \* the last call on the search source and how it ended

chainVars == <<loadersArg, loaders, namespace, environ, cl_configs, env_configs,
               ef_configs, looked, last>>
genVars == <<gs_names, gs_pc, gs_pos, gs_open, gs_out>>
searchVars == <<rs_start, rs_root, rs_last>>

vars == <<chainVars, fs, genVars, searchVars>>

(***************************************************************************)
(* Values                                                                  *)
(***************************************************************************)
None == "None"
NoDefault == "NoDefault"              \* no 'default' keyword was passed
NOT_SET == "NOT_SET"

Keys == {"FOO", "foo"}                \* the keys callers ask for
Names == {"FOO", "BAR"}               \* the names the stores may hold
FileNames == {".env", "b.env"}

EmptyMap == [n \in {} |-> None]

\* dict.update / dict merge: the entries of b override those of a
DictUpdate(a, b) ==
    [n \in (DOMAIN a) \cup (DOMAIN b) |-> IF n \in DOMAIN b THEN b[n] ELSE a[n]]

\* str.upper on the keys of the model
Upper(key) ==
    CASE key = "foo" -> "FOO"
      [] key = "bar" -> "BAR"
      [] OTHER -> key

\* IniFile's default var_format: lambda x: x
Identity(key) == key

(***************************************************************************)
(* Sources                                                                 *)
(***************************************************************************)
NoSource == [kind |-> "None", filenames |-> <<>>]
FileSource(names) == [kind |-> "FileSource", filenames |-> names]
\* a Source that is not a FileSource
SearchSource == [kind |-> "RecursiveFileSearchSource", filenames |-> <<>>]

Sources == {NoSource, FileSource(<<".env", "b.env">>), SearchSource}

\* the contents a file may have
Missing == [kind |-> "missing", data |-> EmptyMap]
Malformed == [kind |-> "malformed", data |-> EmptyMap]
WellFormed(d) == [kind |-> "ok", data |-> d]

FileValue(f) == IF f = ".env" THEN "1" ELSE "3"

FileContents(f) ==
    {Missing, Malformed, WellFormed([n \in {"FOO"} |-> FileValue(f)])}

\* open(filename, 'r') raises FileNotFoundError
FileExists(files, f) == files[f].kind # "missing"

\* FileSource.get_streams, consumed to its end: the existing files, in order
get_streams(names, files) == SelectSeq(names, LAMBDA f : FileExists(files, f))

\* EnvFileParser.parse_config: a mapping, or ParserError
parse_config(content) ==
    IF content.kind = "malformed"
    THEN [err |-> TRUE, data |-> EmptyMap]
    ELSE [err |-> FALSE, data |-> content.data]

(***************************************************************************)
(* Loaders                                                                 *)
(***************************************************************************)
LoaderKinds == {"CommandLine", "Environment", "EnvFile", "IniFile"}

\* the class attribute source_type
source_type(L) == IF L = "EnvFile" THEN "FileSource" ELSE None

\* self._source after __init__
bound_source(L) == IF L = "EnvFile" THEN FileSource(<<".env">>) ELSE NoSource

\* get_args: the parsed arguments without those left at NOT_SET
get_args(ns) ==
    [n \in {m \in DOMAIN ns : ns[m] # NOT_SET} |-> ns[n]]

\* CommandLine.__init__: self.configs = {}
CommandLine_init(ns) == EmptyMap

\* what a loader call gives back: a value or an exception, the loader's cache
\* afterwards, whether _get_config was entered and whether the backing store
\* was read
Returned(v, cfg, read) ==
    [kind |-> "value", val |-> v, name |-> None, cfg |-> cfg,
     entered |-> TRUE, read |-> read]
Raised(exc, what, cfg, entered, read) ==
    [kind |-> exc, val |-> None, name |-> what, cfg |-> cfg,
     entered |-> entered, read |-> read]

\* dict lookup: self.configs[key]
Lookup(map, key, cfg, read) ==
    IF key \in DOMAIN map
    THEN Returned(map[key], cfg, read)
    ELSE Raised("KeyError", key, cfg, TRUE, read)

CommandLine_get_config(key, source) ==
    Lookup(cl_configs, key, cl_configs, FALSE)

\* Environment.configs is {} after __init__ and copy.copy(os.environ) after a
\* load.  copy.copy of os.environ copies the object, not the dict it wraps:
\* the copy shows every later change of os.environ.
EnvView(c) == IF c = "environ" THEN environ ELSE EmptyMap

Environment_get_config(key, source) ==
    LET load == EnvView(env_configs) = EmptyMap
        cfg == IF load THEN "environ" ELSE env_configs
    IN  Lookup(EnvView(cfg), Upper(key), cfg, load)

RECURSIVE EnvFile_load_from(_, _, _)
EnvFile_load_from(streams, i, cfg) ==
    IF i > Len(streams)
    THEN [err |-> FALSE, name |-> None, cfg |-> cfg]
    ELSE LET parsed == parse_config(fs[streams[i]])
         IN  IF parsed.err
             THEN [err |-> TRUE, name |-> streams[i], cfg |-> cfg]
             ELSE EnvFile_load_from(streams, i + 1, DictUpdate(cfg, parsed.data))

EnvFile_load(source) ==
    EnvFile_load_from(get_streams(source.filenames, fs), 1, ef_configs)

EnvFile_get_config(key, source) ==
    IF ef_configs = EmptyMap
    THEN LET l == EnvFile_load(source)
         IN  IF l.err
             THEN Raised("InvalidConfigurationFile", l.name, l.cfg, TRUE, TRUE)
             ELSE Lookup(l.cfg, Upper(key), l.cfg, TRUE)
    ELSE Lookup(ef_configs, Upper(key), ef_configs, FALSE)

\* IniFile.parser never reads a file: parser.get raises NoSectionError
IniFile_get_config(key, source) ==
    Raised("KeyError", Identity(key), EmptyMap, TRUE, FALSE)

Cache(L) ==
    CASE L = "CommandLine" -> cl_configs
      [] L = "Environment" -> env_configs
      [] L = "EnvFile" -> ef_configs
      [] OTHER -> EmptyMap

\* isinstance(source, self.source_type)
IsInstance(source, type) == source.kind = type

\* AbstractConfigurationLoader.get_config
Loader_get_config(L, key, source) ==
    IF source_type(L) # None /\ ~IsInstance(source, source_type(L))
    THEN Raised("TypeError", L, Cache(L), FALSE, FALSE)
    ELSE LET src == IF source.kind # "None" THEN source ELSE bound_source(L)
         IN  CASE L = "CommandLine" -> CommandLine_get_config(key, src)
               [] L = "Environment" -> Environment_get_config(key, src)
               [] L = "EnvFile" -> EnvFile_get_config(key, src)
               [] OTHER -> IniFile_get_config(key, src)

(***************************************************************************)
(* The chain                                                               *)
(***************************************************************************)
DefaultLoaders == <<"CommandLine", "Environment", "EnvFile", "IniFile">>

\* the default loaders in another order
Loaders_init_reordered(arg) ==
    IF arg = <<None>>
    THEN <<"Environment", "CommandLine", "EnvFile", "IniFile">>
    ELSE arg

\* Loaders.__init__
Loaders_init(arg) == IF arg = <<None>> THEN DefaultLoaders ELSE arg

RECURSIVE Loaders_get_config_from(_, _, _, _)

\* a chain that goes on to the next loader after any exception
Loaders_get_config_except_all(i, key, source, asked) ==
    IF i > Len(loaders)
    THEN [kind |-> "KeyError", val |-> None, name |-> key, asked |-> asked]
    ELSE LET r == Loader_get_config(loaders[i], key, source)
         IN  IF r.kind # "value"
             THEN Loaders_get_config_from(i + 1, key, source, Append(asked, loaders[i]))
             ELSE [kind |-> r.kind, val |-> r.val, name |-> r.name,
                   asked |-> Append(asked, loaders[i])]

\* Loaders.get_config from position i: the first result that is not a
\* KeyError, with the loaders asked on the way
Loaders_get_config_from(i, key, source, asked) ==
    IF i > Len(loaders)
    THEN [kind |-> "KeyError", val |-> None, name |-> key, asked |-> asked]
    ELSE LET r == Loader_get_config(loaders[i], key, source)
         IN  IF r.kind = "KeyError"
             THEN Loaders_get_config_from(i + 1, key, source, Append(asked, loaders[i]))
             ELSE [kind |-> r.kind, val |-> r.val, name |-> r.name,
                   asked |-> Append(asked, loaders[i])]

Loaders_get_config(key, source) == Loaders_get_config_from(1, key, source, <<>>)

(***************************************************************************)
(* The resolver                                                            *)
(***************************************************************************)
Casts == {"identity", "boolean", "not_callable"}
Defaults == {NoDefault, None, "d"}

callable(cast) == cast # "not_callable"

\* cast(config): the default cast lambda v: v, and a cast that changes every value
Apply(cast, v) ==
    IF cast = "identity" THEN v
    ELSE CASE v = "0" -> "b0" [] v = "1" -> "b1" [] v = "2" -> "b2"
           [] v = "3" -> "b3" [] v = "d" -> "bd" [] OTHER -> "b?"

\* kwargs.get('default')
kwargs_get_default(default) == IF default = NoDefault THEN None ELSE default

\* a resolver that casts the values of the chain and returns a default as it is
Configuration_call_default_uncast(key, cast, source, default) ==
    IF ~callable(cast)
    THEN [kind |-> "TypeError", val |-> None, name |-> "cast", asked |-> <<>>,
          via |-> None, castLog |-> <<>>]
    ELSE LET r == Loaders_get_config(key, source)
         IN  IF r.kind = "value"
             THEN [kind |-> "value", val |-> Apply(cast, r.val), name |-> None,
                   asked |-> r.asked, via |-> "chain", castLog |-> <<r.val>>]
             ELSE IF r.kind # "KeyError"
             THEN [kind |-> r.kind, val |-> None, name |-> r.name, asked |-> r.asked,
                   via |-> None, castLog |-> <<>>]
             ELSE IF kwargs_get_default(default) = None
             THEN [kind |-> "UnknownConfiguration", val |-> None, name |-> key,
                   asked |-> r.asked, via |-> None, castLog |-> <<>>]
             ELSE [kind |-> "value", val |-> default, name |-> None,
                   asked |-> r.asked, via |-> "default", castLog |-> <<>>]

\* Configuration.__call__
Configuration_call(key, cast, source, default) ==
    IF ~callable(cast)
    THEN [kind |-> "TypeError", val |-> None, name |-> "cast", asked |-> <<>>,
          via |-> None, castLog |-> <<>>]
    ELSE LET r == Loaders_get_config(key, source)
             config == IF r.kind = "KeyError" THEN kwargs_get_default(default) ELSE r.val
             via == IF r.kind = "KeyError" THEN "default" ELSE "chain"
         IN  IF r.kind \notin {"value", "KeyError"}
             THEN [kind |-> r.kind, val |-> None, name |-> r.name, asked |-> r.asked,
                   via |-> None, castLog |-> <<>>]
             ELSE IF config = None
             THEN [kind |-> "UnknownConfiguration", val |-> None, name |-> key,
                   asked |-> r.asked, via |-> None, castLog |-> <<>>]
             ELSE [kind |-> "value", val |-> Apply(cast, config), name |-> None,
                   asked |-> r.asked, via |-> via, castLog |-> <<config>>]

(***************************************************************************)
(* State                                                                   *)
(***************************************************************************)
Range(s) == {s[i] : i \in 1..Len(s)}

NoCall ==
    [op |-> "none", default |-> NoDefault, kind |-> None, val |-> None,
     name |-> None, asked |-> <<>>, via |-> None]

\* the chains an application builds; <<None>> stands for Loaders() / Loaders(None)
Chains ==
    {<<None>>, <<>>, <<"CommandLine", "Environment">>, <<"EnvFile", "Environment">>}

\* the process arguments: --FOO 0 was passed, --BAR was not
Namespaces == {[n \in Names |-> IF n = "FOO" THEN "0" ELSE NOT_SET]}

InitChain ==
    /\ loadersArg \in Chains
    /\ loaders = Loaders_init(loadersArg)
    /\ namespace \in Namespaces
    /\ environ = EmptyMap
    /\ fs = [f \in FileNames |-> Missing]
    /\ cl_configs = CommandLine_init(namespace)
    /\ env_configs = "dict"
    /\ ef_configs = EmptyMap
    /\ looked = {}
    /\ last = NoCall

\* the caches and the bookkeeping after the loaders in 'asked' were called
AfterCalls(asked, key, source) ==
    LET r(L) == Loader_get_config(L, key, source)
    IN  /\ env_configs' = IF "Environment" \in asked THEN r("Environment").cfg
                          ELSE env_configs
        /\ ef_configs' = IF "EnvFile" \in asked THEN r("EnvFile").cfg ELSE ef_configs
        /\ looked' = looked \cup {L \in asked : r(L).entered}
        /\ UNCHANGED <<loadersArg, loaders, namespace, environ, fs, cl_configs,
                       genVars, searchVars>>

\* loader.get_config(key, source) called on one loader of the chain
LoaderGetConfig(L, key, source) ==
    /\ L \in Range(loaders)
    /\ LET r == Loader_get_config(L, key, source)
       IN  last' = [NoCall EXCEPT !.op = L, !.kind = r.kind, !.val = r.val,
                                  !.name = r.name, !.asked = <<L>>]
    /\ AfterCalls({L}, key, source)

\* Loaders.get_config(key, source)
LoadersGetConfig(key, source) ==
    LET r == Loaders_get_config(key, source)
    IN  /\ last' = [NoCall EXCEPT !.op = "Loaders", !.kind = r.kind, !.val = r.val,
                                  !.name = r.name, !.asked = r.asked]
        /\ AfterCalls(Range(r.asked), key, source)

\* Configuration.__call__(item, cast, source, default=...)
ConfigurationCall(key, cast, source, default) ==
    LET r == Configuration_call(key, cast, source, default)
    IN  /\ last' = [op |-> "Configuration", default |-> default, kind |-> r.kind,
                    val |-> r.val, name |-> r.name, asked |-> r.asked, via |-> r.via]
        /\ AfterCalls(Range(r.asked), key, source)

\* os.environ[name] = "2"
SetEnv(name) ==
    /\ environ' = DictUpdate(environ, [n \in {name} |-> "2"])
    /\ UNCHANGED <<loadersArg, loaders, namespace, fs, cl_configs, env_configs,
                   ef_configs, looked, last, genVars, searchVars>>

\* del os.environ[name]
UnsetEnv(name) ==
    /\ name \in DOMAIN environ
    /\ environ' = [n \in (DOMAIN environ) \ {name} |-> environ[n]]
    /\ UNCHANGED <<loadersArg, loaders, namespace, fs, cl_configs, env_configs,
                   ef_configs, looked, last, genVars, searchVars>>

\* a file is written, rewritten or removed
WriteFile(f, content) ==
    /\ fs[f] # content
    /\ fs' = [fs EXCEPT ![f] = content]
    /\ UNCHANGED <<loadersArg, loaders, namespace, environ, cl_configs, env_configs,
                   ef_configs, looked, last, genVars, searchVars>>

NextChain ==
    \/ \E L \in LoaderKinds, key \in Keys, source \in Sources :
          LoaderGetConfig(L, key, source)
    \/ \E key \in Keys, source \in Sources : LoadersGetConfig(key, source)
    \/ \E key \in Keys, cast \in Casts, source \in Sources, default \in Defaults :
          ConfigurationCall(key, cast, source, default)
    \/ \E name \in Names : SetEnv(name)
    \/ \E name \in Names : UnsetEnv(name)
    \/ \E f \in FileNames : \E content \in FileContents(f) : WriteFile(f, content)

(***************************************************************************)
(* FileSource.get_streams, one resumption of the generator at a time       *)
(***************************************************************************)
MaxFiles == 3

FileLists == UNION {[1..n -> FileNames] : n \in 0..MaxFiles}

\* open(filename, 'r')
Open(f) == IF FileExists(fs, f) THEN "stream" ELSE "FileNotFoundError"

\* leaving the with block closes the file the generator stands on
with_exit(open, pos) == open \ {pos}

RECURSIVE get_streams_from(_)

\* a loop without the except clause: FileNotFoundError leaves the generator
get_streams_no_except(i) ==
    IF i > Len(gs_names)
    THEN [pc |-> "done", pos |-> i]
    ELSE IF Open(gs_names[i]) = "FileNotFoundError"
    THEN [pc |-> "raised", pos |-> i]
    ELSE [pc |-> "yielded", pos |-> i]

\* the for loop entered at index i: a missing file is skipped (except
\* FileNotFoundError: continue), the first file that opens is yielded
get_streams_from(i) ==
    IF i > Len(gs_names)
    THEN [pc |-> "done", pos |-> i]
    ELSE IF Open(gs_names[i]) = "FileNotFoundError"
    THEN get_streams_from(i + 1)
    ELSE [pc |-> "yielded", pos |-> i]

IdleGen ==
    /\ gs_pc = "idle"
    /\ gs_pos = 0
    /\ gs_open = {}
    /\ gs_out = <<>>

\* source.get_streams(): the generator is created, its body has not run yet
GetStreams ==
    /\ gs_pc \in {"idle", "done"}
    /\ gs_pc' = "created"
    /\ gs_pos' = 0
    /\ gs_open' = {}
    /\ gs_out' = <<>>
    /\ UNCHANGED <<chainVars, fs, gs_names, searchVars>>

\* next(generator): the body runs to the next yield or to its end
GetStreamsNext ==
    /\ gs_pc \in {"created", "yielded"}
    /\ LET closed == IF gs_pc = "yielded" THEN with_exit(gs_open, gs_pos) ELSE gs_open
           to == get_streams_from(gs_pos + 1)
       IN  /\ gs_pc' = to.pc
           /\ gs_pos' = to.pos
           /\ gs_open' = IF to.pc = "yielded" THEN closed \cup {to.pos} ELSE closed
           /\ gs_out' = IF to.pc = "yielded" THEN Append(gs_out, to.pos) ELSE gs_out
    /\ UNCHANGED <<chainVars, fs, gs_names, searchVars>>

(***************************************************************************)
(* RecursiveFileSearchSource                                               *)
(*                                                                         *)
(* A path is the sequence of its components: <<>> is "/", <<"a", "ab">> is *)
(* "/a/ab".  A last component ".env" is a file, every other path is a      *)
(* directory.                                                              *)
(***************************************************************************)
MaxDepth == 2

DirNames == {"a", "ab"}
Dirs == UNION {[1..n -> DirNames] : n \in 0..MaxDepth}
Paths == Dirs \cup {Append(d, ".env") : d \in Dirs}

\* os.path.dirname
dirname(p) == IF p = <<>> THEN <<>> ELSE SubSeq(p, 1, Len(p) - 1)

\* os.path.isdir
isdir(p) == p \in Dirs

\* os.path.exists: the directories, and the .env files of "/" and "/a"
exists(p) == p \in Dirs \/ p \in {<<".env">>, <<"a", ".env">>}

\* str.startswith on one component
NameStartsWith(x, y) == x = y \/ (x = "ab" /\ y = "a")

\* path.startswith(root), on the strings the two sequences stand for
startswith(p, root) ==
    \/ root = <<>>
    \/ /\ Len(p) >= Len(root)
       /\ SubSeq(p, 1, Len(root) - 1) = SubSeq(root, 1, Len(root) - 1)
       /\ NameStartsWith(p[Len(root)], root[Len(root)])

\* what _start_path may hold
MagicStartPath == [kind |-> "magic", path |-> <<>>]
EmptyString == [kind |-> "empty", path |-> <<>>]
PathString(p) == [kind |-> "path", path |-> p]
NoAttribute == [kind |-> "AttributeError", path |-> <<>>]

\* bool(start_path): an object without __bool__ is true, '' is false
Truthy(v) == v.kind # "empty"

\* RecursiveFileSearchSource.__init__; None stands for start_path=None
RecursiveFileSearchSource_init(start) ==
    IF start = NoAttribute THEN MagicStartPath ELSE start

\* the start_path setter: the new _start_path, or InvalidPath
start_path_setter(v) ==
    IF ~Truthy(v) \/ v.kind # "path" THEN [kind |-> "InvalidPath", path |-> <<>>]
    ELSE IF ~startswith(v.path, rs_root) THEN [kind |-> "InvalidPath", path |-> <<>>]
    ELSE IF ~exists(v.path) THEN [kind |-> "InvalidPath", path |-> <<>>]
    ELSE IF ~isdir(v.path) THEN PathString(dirname(v.path))
    ELSE v

\* getattr(self, name): the attributes the class and __init__ define
GetAttr(name) ==
    CASE name = "start_path" -> rs_start
      [] name = "_start_path" -> rs_start
      [] name = "root_path" -> PathString(rs_root)
      [] OTHER -> NoAttribute

\* glob(os.path.join(dir, pattern)): the .env file of the directory
glob(dir, patterns) ==
    IF ".env" \in patterns /\ exists(Append(dir, ".env"))
    THEN <<Append(dir, ".env")>> ELSE <<>>

\* the while loop of find_all from directory p
RECURSIVE find_all_while(_, _, _, _)
find_all_while(p, patterns, examined, found) ==
    IF p = rs_root
    THEN [kind |-> "exhausted", examined |-> examined, found |-> found]
    ELSE IF dirname(p) = p
    THEN [kind |-> "diverges", examined |-> Append(examined, p),
          found |-> found \o glob(p, patterns)]
    ELSE find_all_while(dirname(p), patterns, Append(examined, p),
                        found \o glob(p, patterns))

\* find_all, consumed to its end
find_all(patterns) ==
    LET start == GetAttr("starting_path")
    IN  IF start.kind = "AttributeError"
        THEN [kind |-> "AttributeError", examined |-> <<>>, found |-> <<>>]
        ELSE IF start.kind # "path"
        THEN [kind |-> "TypeError", examined |-> <<>>, found |-> <<>>]
        ELSE find_all_while(start.path, patterns, <<>>, <<>>)

\* find_first: the first match of find_all, or FileNotFound
find_first(patterns) ==
    LET r == find_all(patterns)
    IN  IF r.found # <<>>
        THEN [kind |-> "value", examined |-> r.examined, found |-> <<r.found[1]>>]
        ELSE IF r.kind = "exhausted"
        THEN [kind |-> "FileNotFound", examined |-> r.examined, found |-> <<>>]
        ELSE r

NoSearch == [op |-> "none", kind |-> None, examined |-> <<>>, found |-> <<>>]

IdleSearch ==
    /\ rs_start = MagicStartPath
    /\ rs_root = <<>>
    /\ rs_last = NoSearch

Patterns == {{}, {".env"}, {".env", "*.ini"}}

\* source.start_path = path
SetStartPath(v) ==
    LET r == start_path_setter(v)
    IN  /\ rs_start' = IF r.kind = "InvalidPath" THEN rs_start ELSE r
        /\ rs_last' = [NoSearch EXCEPT !.op = "start_path", !.kind = r.kind]
        /\ UNCHANGED <<chainVars, fs, genVars, rs_root>>

\* source.filenames, read from a module that lies in directory caller
Filenames(caller) ==
    LET r == IF Truthy(rs_start) THEN rs_start
             ELSE start_path_setter(PathString(caller))
    IN  /\ rs_start' = IF r.kind = "InvalidPath" THEN rs_start ELSE r
        /\ rs_last' = [NoSearch EXCEPT !.op = "filenames",
                          !.kind = IF r.kind = "InvalidPath" THEN r.kind ELSE "value"]
        /\ UNCHANGED <<chainVars, fs, genVars, rs_root>>

\* list(source.find_all(patterns))
FindAll(patterns) ==
    LET r == find_all(patterns)
    IN  /\ rs_last' = [op |-> "find_all", kind |-> r.kind, examined |-> r.examined,
                       found |-> r.found]
        /\ UNCHANGED <<chainVars, fs, genVars, rs_start, rs_root>>

\* source.find_first(patterns)
FindFirst(patterns) ==
    LET r == find_first(patterns)
    IN  /\ rs_last' = [op |-> "find_first", kind |-> r.kind, examined |-> r.examined,
                       found |-> r.found]
        /\ UNCHANGED <<chainVars, fs, genVars, rs_start, rs_root>>

(***************************************************************************)
(* Specifications                                                          *)
(***************************************************************************)
IdleChain ==
    /\ loadersArg = <<>>
    /\ loaders = Loaders_init(loadersArg)
    /\ namespace \in Namespaces
    /\ environ = EmptyMap
    /\ cl_configs = CommandLine_init(namespace)
    /\ env_configs = "dict"
    /\ ef_configs = EmptyMap
    /\ looked = {}
    /\ last = NoCall

\* the loader chain and the resolver
Init == InitChain /\ IdleGen /\ gs_names = <<>> /\ IdleSearch
Next == NextChain
Spec == Init /\ [][Next]_vars

\* a FileSource and the generator of its streams
InitSource ==
    /\ IdleChain
    /\ fs \in [FileNames -> {Missing, Malformed, WellFormed(EmptyMap)}]
    /\ gs_names \in FileLists
    /\ IdleGen
    /\ IdleSearch

NextSource == GetStreams \/ GetStreamsNext
SpecSource == InitSource /\ [][NextSource]_vars

\* a RecursiveFileSearchSource
InitSearch ==
    /\ IdleChain
    /\ fs = [f \in FileNames |-> Missing]
    /\ gs_names = <<>>
    /\ IdleGen
    /\ rs_root \in Dirs
    /\ \E start \in {NoAttribute, EmptyString} \cup {PathString(p) : p \in Paths} :
          rs_start = RecursiveFileSearchSource_init(start)
    /\ rs_last = NoSearch

NextSearch ==
    \/ \E v \in {EmptyString} \cup {PathString(p) : p \in Paths} : SetStartPath(v)
    \/ \E caller \in Dirs : Filenames(caller)
    \/ \E patterns \in Patterns : FindAll(patterns)
    \/ \E patterns \in Patterns : FindFirst(patterns)

SpecSearch == InitSearch /\ [][NextSearch]_vars

(***************************************************************************)
(* The claims                                                              *)
(*                                                                         *)
(* A claim about a call is stated over every call the caller can make in   *)
(* the state reached: the operators above give the outcome of the call.    *)
(***************************************************************************)
Callable == {cast \in Casts : callable(cast)}
Min(S) == CHOOSE i \in S : \A j \in S : i <= j

\* C1: called without a source override, Loaders.get_config returns the value
\* of the earliest loader of the list that gives a value for the key, and
\* raises KeyError exactly when every loader of the list raises KeyError.
C1_EarliestLoaderWins ==
    [][\A key \in Keys :
          LoadersGetConfig(key, NoSource) =>
              LET own(i) == Loader_get_config(loaders[i], key, NoSource)
                  have == {i \in 1..Len(loaders) : own(i).kind = "value"}
              IN  /\ have # {} =>
                         last'.kind = "value" /\ last'.val = own(Min(have)).val
                  /\ last'.kind = "KeyError" <=>
                         \A i \in 1..Len(loaders) : own(i).kind = "KeyError"]_vars

\* C2: Configuration.__call__(key) with a callable cast ends in one of three
\* ways: it returns a value of the chain, it returns the default, or it raises
\* UnknownConfiguration naming the key; it never returns None, and
\* default=None is the same as no default.
C2_ThreeOutcomes ==
    [][\A key \in Keys, cast \in Callable, default \in Defaults :
          ConfigurationCall(key, cast, NoSource, default) =>
              /\ last'.kind \in {"value", "UnknownConfiguration"}
              /\ last'.kind = "value" =>
                     last'.via \in {"chain", "default"} /\ last'.val # None
              /\ last'.kind = "UnknownConfiguration" => last'.name = key
              /\ Configuration_call(key, cast, NoSource, None)
                     = Configuration_call(key, cast, NoSource, NoDefault)]_vars

\* C3: a loader that requires a source kind raises TypeError only when an
\* override is given and is not of that kind; without an override the lookup
\* goes on to _get_config with the bound source.
C3_TypeErrorOnlyForWrongOverride ==
    [][\A L \in LoaderKinds, key \in Keys, source \in Sources :
          (LoaderGetConfig(L, key, source) /\ source_type(L) # None) =>
              /\ last'.kind = "TypeError" =>
                     source.kind # "None" /\ source.kind # source_type(L)
              /\ source.kind = "None" => L \in looked']_vars

\* what a lookup on one loader answers
Answer(L, key, source) ==
    LET r == Loader_get_config(L, key, source) IN <<r.kind, r.val>>

\* C4: once an Environment or an EnvFile has been looked up, it answers from
\* the cache filled by that lookup: no later step, a change of the environment
\* or of a file included, changes what a lookup on it answers.
C4_LoadOnce ==
    [][\A L \in looked \cap {"Environment", "EnvFile"} :
          \A key \in Keys, source \in Sources :
              Answer(L, key, source)' = Answer(L, key, source)]_vars

\* C5: a CommandLine holds the parsed process arguments without those left at
\* NOT_SET, a lookup of an argument that was passed returns its value, and
\* the chain [CommandLine, Environment] answers with the command line's value
\* when both hold the key.
C5_CommandLineHoldsArguments ==
    "CommandLine" \in Range(loaders) =>
        /\ cl_configs = get_args(namespace)
        /\ \A key \in Keys :
               LET r == Loader_get_config("CommandLine", key, NoSource)
               IN  IF key \in DOMAIN get_args(namespace)
                   THEN r.kind = "value" /\ r.val = namespace[key]
                   ELSE r.kind = "KeyError"
        /\ (loaders = <<"CommandLine", "Environment">> /\ "FOO" \in DOMAIN environ)
               => Loaders_get_config("FOO", NoSource).val = "0"

\* C6: Configuration.__call__ returns cast(v), v being the value the chain
\* found or, when the chain raised KeyError, the default; cast is applied
\* once, to v, and is not applied at all when the call fails.
C6_CastOnceOnFinalValue ==
    \A key \in Keys, cast \in Callable, source \in Sources, default \in Defaults :
        LET r == Configuration_call(key, cast, source, default)
            c == Loaders_get_config(key, source)
            v == IF c.kind = "value" THEN c.val ELSE default
        IN  /\ r.kind = "value" =>
                /\ c.kind \in {"value", "KeyError"}
                /\ r.val = Apply(cast, v)
                /\ r.castLog = <<v>>
            /\ r.kind # "value" => r.castLog = <<>>
            /\ c.kind = "value" => r.kind = "value"
            /\ (c.kind = "KeyError" /\ default = "d") => r.kind = "value"

C6_Witness ==
    /\ last.op = "Configuration"
    /\ last.kind = "value"
    /\ last.via = "default"
    /\ last.val = "bd"
    /\ last.asked # <<>>

\* C7: find_all examines the directories from start_path up to root_path,
\* root_path included, yields the matches of those directories and ends.
UpwardPath(p, root) ==
    [i \in 1..(Len(p) - Len(root) + 1) |-> SubSeq(p, 1, Len(p) - i + 1)]

C7_FindAllWalksUpToRoot ==
    (rs_last.op = "find_all" /\ rs_start.kind = "path"
       /\ startswith(rs_start.path, rs_root)
       /\ SubSeq(rs_start.path, 1, Len(rs_root)) = rs_root) =>
        /\ rs_last.kind = "exhausted"
        /\ rs_last.examined = UpwardPath(rs_start.path, rs_root)

\* the streams of the source a load reads, and the first one the parser rejects
LoadStreams(source) ==
    get_streams((IF source.kind = "None" THEN bound_source("EnvFile")
                 ELSE source).filenames, fs)
Rejected(source) ==
    {i \in 1..Len(LoadStreams(source)) : fs[LoadStreams(source)[i]] = Malformed}
FirstRejected(source) == LoadStreams(source)[Min(Rejected(source))]

\* C8: when a lookup makes an EnvFile load a source that holds a stream the
\* parser rejects, the lookup raises InvalidConfigurationFile naming that
\* stream; the chain stops at the EnvFile and raises it, and the resolver
\* raises it whatever the default.
C8_ParserFailurePropagates ==
    \A key \in Keys, source \in Sources :
        LET e == Loader_get_config("EnvFile", key, source)
            c == Loaders_get_config(key, source)
        IN  ("EnvFile" \in Range(loaders) /\ e.read /\ Rejected(source) # {}) =>
                /\ e.kind = "InvalidConfigurationFile"
                /\ e.name = FirstRejected(source)
                /\ \A i \in 1..Len(loaders) :
                       (loaders[i] = "EnvFile" /\ Len(c.asked) >= i) =>
                           /\ c.kind = "InvalidConfigurationFile"
                           /\ c.name = FirstRejected(source)
                           /\ Len(c.asked) = i
                           /\ \A cast \in Callable, default \in Defaults :
                                  LET r == Configuration_call(key, cast, source, default)
                                  IN  /\ r.kind = "InvalidConfigurationFile"
                                      /\ r.name = FirstRejected(source)
                                      /\ r.via = None

C8_Witness ==
    /\ last.op = "Configuration"
    /\ last.kind = "InvalidConfigurationFile"
    /\ last.name = "b.env"
    /\ last.default = "d"
    /\ last.asked # <<>>
    /\ last.asked[Len(last.asked)] = "EnvFile"
    /\ Len(last.asked) < Len(loaders)

\* the indices up to n of the files that exist, in the order of the list
ExistingUpTo(n) ==
    SelectSeq([i \in 1..n |-> i], LAMBDA i : fs[gs_names[i]] # Missing)

\* C9: get_streams yields one open stream per existing file in the order of
\* the filename list, skips the missing files without raising, and never has
\* two files open.
C9_StreamsOfExistingFiles ==
    /\ gs_pc # "raised"
    /\ Cardinality(gs_open) <= 1
    /\ gs_pc = "yielded" =>
           /\ gs_open = {gs_pos}
           /\ gs_out = ExistingUpTo(gs_pos)
           /\ gs_out[Len(gs_out)] = gs_pos
    /\ gs_pc = "done" =>
           /\ gs_open = {}
           /\ gs_out = ExistingUpTo(Len(gs_names))

C9_Witness ==
    /\ gs_pc = "done"
    /\ Len(gs_names) = 3
    /\ fs[gs_names[1]] # Missing
    /\ fs[gs_names[2]] = Missing
    /\ gs_out = <<1, 3>>

\* C10: Loaders() holds CommandLine, Environment, EnvFile, IniFile in that
\* order, Loaders(list) holds the list, and no call changes the sequence.
C10_LoadersFixed ==
    loaders = IF loadersArg = <<None>>
              THEN <<"CommandLine", "Environment", "EnvFile", "IniFile">>
              ELSE loadersArg

C10_Witness ==
    /\ loadersArg = <<None>>
    /\ last.op = "Configuration"
    /\ last.kind = "TypeError"
    /\ last.asked = <<"CommandLine", "Environment", "EnvFile">>
    /\ "Environment" \in looked

\* C11: a failed EnvFile load is atomic.  When a lookup on the EnvFile makes
\* it load and the load raises InvalidConfigurationFile, the cache afterwards
\* holds nothing of the streams parsed before the rejected one, and a further
\* lookup on the same instance with the files unchanged loads again and
\* raises InvalidConfigurationFile for the same stream.
C11_FailedLoadAtomic ==
    [][\A key \in Keys, source \in Sources :
           (/\ LoaderGetConfig("EnvFile", key, source)
            /\ last'.kind = "InvalidConfigurationFile") =>
               /\ ef_configs' = EmptyMap
               /\ \A again \in Keys :
                      LET r == Loader_get_config("EnvFile", again, source)'
                      IN  /\ r.kind = "InvalidConfigurationFile"
                          /\ r.name = last'.name
                          /\ r.read]_vars

====
